---- MODULE Spec2Model ----
(***************************************************************************)
(* Model of appBI.py, the "Dashboard Comercial Andina" Streamlit script:   *)
(* load_data (read, clean, enrich, cached by st.cache_data) and main (date *)
(* envelope, filter widgets, mask, KPIs and grouped aggregates).           *)
(*                                                                         *)
(* Data representation.  A DataFrame is a sequence of records (rows in     *)
(* index order).  A timestamp is a number of ticks, TicksPerDay ticks to a *)
(* day, so that a timestamp has a time of day; a datetime.date is a day    *)
(* number.  NaN in an id column is NullId, NaN in a text column is NullStr *)
(* and a missing timestamp is NaT.  Amounts are integers.                  *)
(***************************************************************************)
EXTENDS Integers, Sequences, FiniteSets, TLC

VARIABLES archivos,       \* the six CSV files under DATA_DIR, as read_csv returns them
          cache,          \* st.cache_data's entry for load_data(), or NoCache
          load_ran,       \* whether the last step ran the body of load_data
          pc,             \* "init": no script run yet; "ok" / "error": how the last run ended
          fecha_desde,    \* widget state of the session
          fecha_hasta,
          region_sel,
          segmento_sel,
          out             \* what the last run of main computed

vars == <<archivos, cache, load_ran, pc, fecha_desde, fecha_hasta,
          region_sel, segmento_sel, out>>

-----------------------------------------------------------------------------
(* Missing values and the calendar *)

NullId == 0
NullStr == "NaN"
NaT == -1
Todos == "Todos"

TicksPerDay == 2
DaysPerMonth == 2
MonthsPerYear == 12
TopN == 15

\* st.date_input turns a datetime into a datetime.date (drops the time of day).
DateOf(ts) == IF ts = NaT THEN NaT ELSE ts \div TicksPerDay

\* pd.to_datetime(date): midnight of that day.
ToDatetime(d) == IF d = NaT THEN NaT ELSE d * TicksPerDay

\* Series.dt.to_period("M"): the ordinal of the month the timestamp falls in.
ToPeriodM(ts) == (ts \div TicksPerDay) \div DaysPerMonth

\* Series.dt.year
Anio(ts) == ToPeriodM(ts) \div MonthsPerYear

\* Period.astype(str): "YYYY-MM", kept as the pair <<year, month>>.
PeriodStr(p) == <<p \div MonthsPerYear, (p % MonthsPerYear) + 1>>

\* Comparisons of timestamps: any comparison with NaT is False.
TsLe(a, b) == a # NaT /\ b # NaT /\ a <= b
TsLt(a, b) == a # NaT /\ b # NaT /\ a < b

-----------------------------------------------------------------------------
(* Generic DataFrame operations *)

\* The missing value of a column, by the column's type.
TextCols ==
    {"nombre_cliente", "segmento", "region", "ciudad", "sku", "descripcion", "estado",
     "centro_logistico", "pais_origen"}
DateCols == {"fecha", "fecha_factura", "fecha_corte", "fecha_orden"}
NullOf(col) ==
    IF col \in TextCols THEN NullStr
    ELSE IF col \in DateCols THEN NaT
    ELSE IF col = "mes" THEN <<>>
    ELSE NullId

\* The order of text values that sorted() and groupby use.
AlphaOrder == <<"Ana", "Beto", "Bogota", "CD1", "CD2", "Cali", "China", "D1", "D2",
                "En mora", "Mayorista", "Norte", "Pagada", "Peru", "Retail", "S1",
                "S2", "Sur", "Vigente">>
\* NaN has no place among the strings; where a sort keeps it, it comes last.
StrRank(s) ==
    IF s = NullStr THEN Len(AlphaOrder) + 1
    ELSE CHOOSE k \in 1..Len(AlphaOrder) : AlphaOrder[k] = s
StrLess(a, b) == StrRank(a) < StrRank(b)
\* "YYYY-MM" strings compare as their (year, month) pairs do.
MesLess(a, b) == a[1] < b[1] \/ (a[1] = b[1] /\ a[2] < b[2])

\* a < b for two values of a column.
ValLess(col, a, b) ==
    IF col \in TextCols THEN StrLess(a, b)
    ELSE IF col = "mes" THEN MesLess(a, b)
    ELSE a < b

RECURSIVE SumSeq(_)
SumSeq(s) == IF s = <<>> THEN 0 ELSE Head(s) + SumSeq(Tail(s))

\* Series.sum()
ColSum(df, col) == SumSeq([i \in 1..Len(df) |-> df[i][col]])

\* df[mask]: the rows whose mask entry is TRUE, in index order.
RECURSIVE BoolIndex(_, _)
BoolIndex(df, mask) ==
    IF df = <<>> THEN <<>>
    ELSE (IF Head(mask) THEN <<Head(df)>> ELSE <<>>) \o BoolIndex(Tail(df), Tail(mask))

\* The values of a row in the columns of a list.
KeyOf(row, by) == [k \in 1..Len(by) |-> row[by[k]]]

\* Variants of duplicated: one that, having marked a row, passes over the next
\* one; keep="last".
DuplicatedAlterno(df, subset) ==
    [i \in 1..Len(df) |->
        LET otros == {j \in 1..(i - 1) : KeyOf(df[j], subset) # KeyOf(df[i], subset)}
            ult == IF otros = {} THEN 0 ELSE CHOOSE j \in otros : \A k \in otros : k <= j
        IN  (i - ult - 1) % 2 = 1]
DuplicatedUltimo(df, subset) ==
    [i \in 1..Len(df) |->
        \E j \in (i + 1)..Len(df) : KeyOf(df[j], subset) = KeyOf(df[i], subset)]

\* DataFrame.duplicated(subset, keep="first"): TRUE where an earlier row has the same
\* values in the subset columns (NaN counts as equal to NaN).
Duplicated(df, subset) ==
    [i \in 1..Len(df) |->
        \E j \in 1..(i - 1) : KeyOf(df[j], subset) = KeyOf(df[i], subset)]

\* DataFrame.drop_duplicates(subset): df[~duplicated].
DropDuplicates(df, subset) ==
    LET dup == Duplicated(df, subset)
    IN  BoolIndex(df, [i \in 1..Len(df) |-> ~dup[i]])

\* DataFrame.dropna(subset): drops the rows with a missing value in any subset column.
DropNa(df, subset) ==
    BoolIndex(df, [i \in 1..Len(df) |->
                      \A k \in 1..Len(subset) : df[i][subset[k]] # NullOf(subset[k])])

\* DataFrame.sort_values(col, ascending): row i goes after the rows that sort before
\* it and the rows of equal value that came before it.
SortValues(df, col, ascending) ==
    LET n == Len(df)
        Less(a, b) == IF ascending THEN ValLess(col, a[col], b[col])
                      ELSE ValLess(col, b[col], a[col])
        pos == [i \in 1..n |->
                  Cardinality({j \in 1..n :
                      Less(df[j], df[i]) \/ (~Less(df[i], df[j]) /\ j < i)}) + 1]
    IN  [k \in 1..n |-> df[CHOOSE i \in 1..n : pos[i] = k]]

\* a < b for two group keys: the first column that differs decides.
KeyLess(by, a, b) ==
    \E k \in 1..Len(by) :
        /\ \A l \in 1..(k - 1) : a[l] = b[l]
        /\ ValLess(by[k], a[k], b[k])

\* The keys of a set as a sequence in increasing order.
SortKeys(S, by) ==
    LET rank == [x \in S |-> Cardinality({y \in S : KeyLess(by, y, x)}) + 1]
    IN  [k \in 1..Cardinality(S) |-> CHOOSE x \in S : rank[x] = k]

\* df.groupby(by, as_index=False, dropna=dropna)[col].sum(): one output row per key,
\* with the key columns and the summed column, sorted by key (sort=True); with
\* dropna the rows with a missing key value are left out.
GroupBy(df, by, col, dropna) ==
    LET rows == IF dropna THEN DropNa(df, by) ELSE df
        keys == {KeyOf(rows[i], by) : i \in 1..Len(rows)}
        ord  == SortKeys(keys, by)
        Sum(key) == SumSeq([i \in 1..Len(rows) |->
                              IF KeyOf(rows[i], by) = key THEN rows[i][col] ELSE 0])
    IN  [k \in 1..Len(ord) |->
            [c \in {by[l] : l \in 1..Len(by)} \cup {col} |->
                IF c = col THEN Sum(ord[k])
                ELSE ord[k][CHOOSE l \in 1..Len(by) : by[l] = c]]]

\* groupby(by, as_index=False)[col].sum(), dropna at its default (True).
GroupBySum(df, by, col) == GroupBy(df, by, col, TRUE)

\* DataFrame.head(n)
HeadN(df, n) == IF Len(df) <= n THEN df ELSE SubSeq(df, 1, n)

\* Record union: the fields of a and, of b, those a has not.
Join(a, b) ==
    [f \in (DOMAIN a) \cup (DOMAIN b) |-> IF f \in DOMAIN a THEN a[f] ELSE b[f]]

RECURSIVE FlattenRows(_)
FlattenRows(ss) == IF ss = <<>> THEN <<>> ELSE Head(ss) \o FlattenRows(Tail(ss))

\* left.merge(right[[on] + cols], on=on, how="left"): for each left row in order, one
\* output row per right row with the same key, in right order; one row with NaN in
\* the right columns when there is none.
MergeLeft(left, right, on, cols) ==
    LET Matches(l) ==
            LET m == BoolIndex(right, [j \in 1..Len(right) |-> right[j][on] = l[on]])
            IN  IF m = <<>> THEN <<Join(l, [c \in cols |-> NullOf(c)])>>
                ELSE [j \in 1..Len(m) |-> Join(l, [c \in cols |-> m[j][c]])]
    IN  FlattenRows([i \in 1..Len(left) |-> Matches(left[i])])

\* Series.min() / Series.max(): missing values are skipped; NaT when nothing is left.
ColMin(df, col) ==
    LET vs == {df[i][col] : i \in 1..Len(df)} \ {NaT}
    IN  IF vs = {} THEN NaT ELSE CHOOSE v \in vs : \A w \in vs : v <= w
ColMax(df, col) ==
    LET vs == {df[i][col] : i \in 1..Len(df)} \ {NaT}
    IN  IF vs = {} THEN NaT ELSE CHOOSE v \in vs : \A w \in vs : v >= w

-----------------------------------------------------------------------------
(* load_data *)

\* Variants of the cleaning of clientes: no drop_duplicates; a de-duplication that
\* passes over rows.
CleanClientesSinDup(df) == DropNa(df, <<"cliente_id">>)
CleanClientesAlterno(df) ==
    LET dup == DuplicatedAlterno(df, <<"cliente_id">>)
    IN  DropNa(BoolIndex(df, [i \in 1..Len(df) |-> ~dup[i]]), <<"cliente_id">>)
CleanClientes(df) == DropNa(DropDuplicates(df, <<"cliente_id">>), <<"cliente_id">>)

\* Variant of the cleaning of productos: keep="last".
CleanProductosUltimo(df) ==
    LET dup == DuplicatedUltimo(df, <<"producto_id">>)
    IN  DropNa(BoolIndex(df, [i \in 1..Len(df) |-> ~dup[i]]), <<"producto_id">>)
CleanProductos(df) == DropNa(DropDuplicates(df, <<"producto_id">>), <<"producto_id">>)

VentasKeyCols == <<"venta_id", "fecha", "cliente_id", "producto_id">>
CleanVentas(df) == DropNa(df, VentasKeyCols)

CarteraKeyCols == <<"documento_id", "cliente_id", "fecha_factura">>
CleanCartera(df) == DropNa(df, CarteraKeyCols)

\* The columns the merges take from clientes and from productos.
ClienteCols == {"nombre_cliente", "segmento", "region", "ciudad"}
ProductoCols == {"sku", "descripcion"}

\* Lines 38-39: the derived columns anio and mes.
Derivados(r) ==
    Join(r, [anio |-> Anio(r.fecha), mes |-> PeriodStr(ToPeriodM(r.fecha))])

Enrich(ventas, clientes, productos) ==
    LET m1 == MergeLeft(ventas, clientes, "cliente_id", ClienteCols)
        m2 == MergeLeft(m1, productos, "producto_id", ProductoCols)
    IN  [i \in 1..Len(m2) |-> Derivados(m2[i])]

LoadData(files) ==
    LET clientes  == CleanClientes(files.clientes)
        productos == CleanProductos(files.productos)
        ventas    == CleanVentas(files.ventas)
        cartera   == CleanCartera(files.cartera)
    IN  [clientes      |-> clientes,
         productos     |-> productos,
         ventas        |-> ventas,
         ventas_ext    |-> Enrich(ventas, clientes, productos),
         inventario    |-> files.inventario,
         importaciones |-> files.importaciones,
         cartera       |-> cartera]

-----------------------------------------------------------------------------
(* main: the date envelope and the filter widgets *)

\* Python's min(list) / max(list): the first element, replaced by each later element
\* that compares < (>) the best so far; a comparison with NaT is False.
RECURSIVE PyMinFrom(_, _)
PyMinFrom(best, rest) ==
    IF rest = <<>> THEN best
    ELSE PyMinFrom(IF TsLt(Head(rest), best) THEN Head(rest) ELSE best, Tail(rest))
PyMin(s) == PyMinFrom(Head(s), Tail(s))

RECURSIVE PyMaxFrom(_, _)
PyMaxFrom(best, rest) ==
    IF rest = <<>> THEN best
    ELSE PyMaxFrom(IF TsLt(best, Head(rest)) THEN Head(rest) ELSE best, Tail(rest))
PyMax(s) == PyMaxFrom(Head(s), Tail(s))

fechas_min(data) ==
    <<ColMin(data.ventas_ext, "fecha"), ColMin(data.cartera, "fecha_factura"),
      ColMin(data.inventario, "fecha_corte"), ColMin(data.importaciones, "fecha_orden")>>
fechas_max(data) ==
    <<ColMax(data.ventas_ext, "fecha"), ColMax(data.cartera, "fecha_factura"),
      ColMax(data.inventario, "fecha_corte"), ColMax(data.importaciones, "fecha_orden")>>

min_date(data) == PyMin(fechas_min(data))
max_date(data) == PyMax(fechas_max(data))

\* st.sidebar.date_input fails when a bound is NaT (NaT cannot be formatted).
DateInputFails(data) == min_date(data) = NaT \/ max_date(data) = NaT

\* The default value of the date range: the envelope, as dates.
DefaultDesde(data) == DateOf(min_date(data))
DefaultHasta(data) == DateOf(max_date(data))

\* sorted(df[col].dropna().unique())
Opciones(df, col) ==
    SortKeys({<<df[i][col]>> : i \in 1..Len(df)} \ {<<NullOf(col)>>}, <<col>>)
regiones(data) ==
    [k \in 1..Len(Opciones(data.ventas_ext, "region")) |->
        Opciones(data.ventas_ext, "region")[k][1]]
segmentos(data) ==
    [k \in 1..Len(Opciones(data.ventas_ext, "segmento")) |->
        Opciones(data.ventas_ext, "segmento")[k][1]]
regiones_opciones(data) == <<Todos>> \o regiones(data)
segmentos_opciones(data) == <<Todos>> \o segmentos(data)

-----------------------------------------------------------------------------
(* main: the filter *)

\* Variant: the upper end of the range excluded.
MaskFechasExcl(ventas_ext, desde, hasta) ==
    [i \in 1..Len(ventas_ext) |->
        /\ TsLe(ToDatetime(desde), ventas_ext[i].fecha)
        /\ TsLt(ventas_ext[i].fecha, ToDatetime(hasta))]

\* Lines 117-120: both comparisons are against midnight of the chosen date.
MaskFechas(ventas_ext, desde, hasta) ==
    [i \in 1..Len(ventas_ext) |->
        /\ TsLe(ToDatetime(desde), ventas_ext[i].fecha)
        /\ TsLe(ventas_ext[i].fecha, ToDatetime(hasta))]

\* mask &= ventas_ext[col] == sel   (NaN == sel is False)
MaskAnd(mask, df, col, sel) ==
    [i \in 1..Len(df) |-> mask[i] /\ df[i][col] # NullOf(col) /\ df[i][col] = sel]

Mask(ventas_ext, desde, hasta, region, segmento) ==
    LET m0 == MaskFechas(ventas_ext, desde, hasta)
        m1 == IF region # Todos THEN MaskAnd(m0, ventas_ext, "region", region) ELSE m0
        m2 == IF segmento # Todos THEN MaskAnd(m1, ventas_ext, "segmento", segmento)
              ELSE m1
    IN  m2

VentasF(ventas_ext, desde, hasta, region, segmento) ==
    BoolIndex(ventas_ext, Mask(ventas_ext, desde, hasta, region, segmento))

-----------------------------------------------------------------------------
(* main: KPIs and grouped aggregates *)

\* Variant: .count() for .sum().
TotalVentasCuenta(ventas_f) == Len(ventas_f)
TotalVentas(ventas_f) == ColSum(ventas_f, "subtotal_cop")

\* Variant: the estado mask left out.
CarteraSinEstado(cartera) == ColSum(cartera, "saldo_cop")
\* cartera[cartera["estado"] == "Vigente"]["saldo_cop"].sum()
CarteraVigente(cartera) ==
    ColSum(BoolIndex(cartera, [i \in 1..Len(cartera) |-> cartera[i].estado = "Vigente"]),
           "saldo_cop")
\* cartera[cartera["estado"] == "En mora"]["saldo_cop"].sum()
CarteraMora(cartera) ==
    ColSum(BoolIndex(cartera, [i \in 1..Len(cartera) |-> cartera[i].estado = "En mora"]),
           "saldo_cop")

\* groupby("mes").sum().sort_values("mes")
VentasMes(ventas_f) ==
    SortValues(GroupBySum(ventas_f, <<"mes">>, "subtotal_cop"), "mes", TRUE)

\* Variant: groupby(..., dropna=False).
VentasRegionConNaN(ventas_f) ==
    GroupBy(ventas_f, <<"region", "segmento">>, "subtotal_cop", FALSE)
VentasRegion(ventas_f) == GroupBySum(ventas_f, <<"region", "segmento">>, "subtotal_cop")

\* Variant: ascending=True.
TopClientesAsc(ventas_f) ==
    HeadN(SortValues(GroupBySum(ventas_f, <<"cliente_id", "nombre_cliente">>,
                                "subtotal_cop"), "subtotal_cop", TRUE), TopN)
\* Rows of equal sum keep the order groupby gave them.
TopClientes(ventas_f) ==
    HeadN(SortValues(GroupBySum(ventas_f, <<"cliente_id", "nombre_cliente">>,
                                "subtotal_cop"), "subtotal_cop", FALSE), TopN)

TopProductos(ventas_f) ==
    HeadN(SortValues(GroupBySum(ventas_f, <<"producto_id", "sku", "descripcion">>,
                                "subtotal_cop"), "subtotal_cop", FALSE), TopN)

\* Lines 116-264: what one run of main computes from the cached tables and the
\* widget values (of the grouped aggregates, the monthly series, region x segment
\* and the two top lists).
Main(data, desde, hasta, region, segmento) ==
    LET ventas_f == VentasF(data.ventas_ext, desde, hasta, region, segmento)
    IN  [ventas_f        |-> ventas_f,
         total_ventas    |-> TotalVentas(ventas_f),
         cartera_vigente |-> CarteraVigente(data.cartera),
         cartera_mora    |-> CarteraMora(data.cartera),
         ventas_mes      |-> VentasMes(ventas_f),
         ventas_region   |-> VentasRegion(ventas_f),
         top_clientes    |-> TopClientes(ventas_f),
         top_productos   |-> TopProductos(ventas_f)]

\* What is on screen when a run stopped with an exception before the aggregates.
NoOut ==
    [ventas_f |-> <<>>, total_ventas |-> 0, cartera_vigente |-> 0, cartera_mora |-> 0,
     ventas_mes |-> <<>>, ventas_region |-> <<>>, top_clientes |-> <<>>,
     top_productos |-> <<>>]

-----------------------------------------------------------------------------
(* The session: script runs, widget changes and cache invalidation *)

NoCache == <<>>

\* load_data() under @st.cache_data: the stored value when there is one, else the
\* body runs.
\* Variant: load_data without the decorator.
CacheMissSiempre == TRUE
CacheMiss == cache = NoCache
CachedLoad == IF CacheMiss THEN LoadData(archivos) ELSE cache[1]

\* One run of the script with the given widget state (NaT: the date widget has no
\* state yet and returns its default value).
Run(desde, hasta, region, segmento) ==
    LET data == CachedLoad
    IN  /\ cache' = <<data>>
        /\ load_ran' = CacheMiss
        /\ UNCHANGED archivos
        /\ IF DateInputFails(data)
           THEN /\ pc' = "error"
                /\ out' = NoOut
                /\ UNCHANGED <<fecha_desde, fecha_hasta, region_sel, segmento_sel>>
           ELSE LET d == IF desde = NaT THEN DefaultDesde(data) ELSE desde
                    h == IF hasta = NaT THEN DefaultHasta(data) ELSE hasta
                IN  /\ pc' = "ok"
                    /\ fecha_desde' = d
                    /\ fecha_hasta' = h
                    /\ region_sel' = region
                    /\ segmento_sel' = segmento
                    /\ out' = Main(data, d, h, region, segmento)

\* The first run of a session: every widget at its default.
Start ==
    /\ pc = "init"
    /\ Run(NaT, NaT, Todos, Todos)

\* A rerun with the widgets as they are.
Rerun ==
    /\ pc # "init"
    /\ Run(fecha_desde, fecha_hasta, region_sel, segmento_sel)

\* The user picks a date range within [min_value, max_value]; the script reruns.
SetFechas ==
    /\ pc = "ok"
    /\ \E d \in DefaultDesde(CachedLoad)..DefaultHasta(CachedLoad) :
       \E h \in DefaultDesde(CachedLoad)..DefaultHasta(CachedLoad) :
          Run(d, h, region_sel, segmento_sel)

\* The user picks one of the options of the region select box; the script reruns.
SetRegion ==
    /\ pc = "ok"
    /\ \E k \in 1..Len(regiones_opciones(CachedLoad)) :
          Run(fecha_desde, fecha_hasta, regiones_opciones(CachedLoad)[k], segmento_sel)

SetSegmento ==
    /\ pc = "ok"
    /\ \E k \in 1..Len(segmentos_opciones(CachedLoad)) :
          Run(fecha_desde, fecha_hasta, region_sel, segmentos_opciones(CachedLoad)[k])

\* st.cache_data.clear() / load_data.clear(): the next run loads again.
ClearCache ==
    /\ cache # NoCache
    /\ cache' = NoCache
    /\ load_ran' = FALSE
    /\ UNCHANGED <<archivos, pc, fecha_desde, fecha_hasta, region_sel,
                   segmento_sel, out>>

-----------------------------------------------------------------------------
(* Input files *)

MaxDim == 3
MaxFact == 2
MaxGrupos == 16

SeqsUpTo(S, n) == UNION {[1..k -> S] : k \in 0..n}

Cliente(id, nombre, seg, reg, ciu) ==
    [cliente_id |-> id, nombre_cliente |-> nombre, segmento |-> seg,
     region |-> reg, ciudad |-> ciu]
Producto(id, sku, desc) == [producto_id |-> id, sku |-> sku, descripcion |-> desc]
Venta(id, f, c, p, st) ==
    [venta_id |-> id, fecha |-> f, cliente_id |-> c, producto_id |-> p,
     subtotal_cop |-> st]
Documento(id, c, f, e, sa) ==
    [documento_id |-> id, cliente_id |-> c, fecha_factura |-> f, estado |-> e,
     saldo_cop |-> sa]
Corte(cl, f, v) ==
    [centro_logistico |-> cl, fecha_corte |-> f, valor_inventario_cop |-> v]
Orden(po, f, c) == [pais_origen |-> po, fecha_orden |-> f, costo_mercancia_usd |-> c]

\* Base files: each has what the cleaning and the joins act on (a repeated key, a
\* missing key, a customer with no region).
BaseClientes ==
    <<Cliente(1, "Ana", "Retail", "Norte", "Bogota"),
      Cliente(2, "Beto", "Mayorista", "Sur", "Cali"),
      Cliente(1, "Beto", "Mayorista", "Sur", "Cali"),
      Cliente(NullId, "Ana", "Retail", "Sur", "Cali")>>
BaseProductos ==
    <<Producto(1, "S1", "D1"), Producto(2, "S2", "D2"), Producto(1, "S2", "D2")>>
BaseVentas ==
    <<Venta(1, 3, 1, 1, 2), Venta(2, 0, 2, 2, 1), Venta(3, 4, 9, 9, 1),
      Venta(4, 1, 1, 1, 1)>>
BaseCartera ==
    <<Documento(1, 1, 1, "Vigente", 2), Documento(2, 2, 2, "En mora", 1),
      Documento(NullId, 1, 1, "Vigente", 1), Documento(3, 2, 2, "Pagada", 1)>>
BaseInventario == <<Corte("CD1", 2, 1), Corte("CD2", 1, 2), Corte("CD1", 1, 1)>>
BaseImportaciones == <<Orden("China", 1, 1), Orden("Peru", 2, 1)>>

BaseArchivos ==
    [clientes |-> BaseClientes, productos |-> BaseProductos, ventas |-> BaseVentas,
     cartera |-> BaseCartera, inventario |-> BaseInventario,
     importaciones |-> BaseImportaciones]

\* Sales of the session: a customer of the north at midnight and at noon, one of
\* the south in the next month, and one that is in no customer row.
VentasSesion ==
    {Venta(1, 0, 1, 1, 1), Venta(1, 3, 1, 1, 1), Venta(1, 4, 2, 2, 1),
     Venta(1, 3, 9, 9, 1)}
\* Sales with amounts that differ, zero included.
VentasMontos == {Venta(1, 0, cp, cp, st) : cp \in {1, 9}, st \in {0, 2}}
CarteraSesion ==
    {Documento(NullId, 1, 1, "Vigente", 1), Documento(1, 1, 1, "Vigente", 1),
     Documento(1, 1, 1, "En mora", 2),
     Documento(1, 1, 1, "Pagada", 1)}
InventarioSesion == SeqsUpTo({Corte("CD1", f, 1) : f \in {NaT, 5}}, 1)
ImportacionesSesion == SeqsUpTo({Orden("China", f, 1) : f \in {1}}, 1)

ArchivosSesion ==
    {[BaseArchivos EXCEPT !.ventas = v] :
        v \in SeqsUpTo(VentasSesion, MaxFact) \cup SeqsUpTo(VentasMontos, MaxFact)}
    \cup {[BaseArchivos EXCEPT !.cartera = c, !.ventas = <<Venta(1, 0, 1, 1, 2)>>] :
            c \in SeqsUpTo(CarteraSesion, MaxFact)}
    \cup {[BaseArchivos EXCEPT !.inventario = i, !.importaciones = m] :
            i \in InventarioSesion, m \in ImportacionesSesion}

\* Files for the cleaning and the joins: keys repeated, missing and dangling.
ClientesLoad ==
    {Cliente(id, "Ana", "Retail", reg, "Bogota") : id \in {NullId, 1, 2}, reg \in {"Norte", "Sur"}}
ProductosLoad ==
    {Producto(id, sku, "D1") : id \in {NullId, 1, 2}, sku \in {"S1", "S2"}}
VentasLoad ==
    {Venta(id, f, c, p, 1) : id \in {NullId, 1}, f \in {NaT, 0}, c \in {NullId, 1},
                             p \in {NullId, 1}}
CarteraLoad ==
    {Documento(id, c, f, "Vigente", 1) : id \in {NullId, 1}, c \in {NullId, 1},
                                         f \in {NaT, 1}}
ClientesJoin == {Cliente(id, "Ana", "Retail", "Norte", "Bogota") : id \in {NullId, 1}}
ProductosJoin == {Producto(id, "S1", "D1") : id \in {NullId, 1}}
VentasJoin == {Venta(1, 0, c, p, 1) : c \in {1, 2}, p \in {1, 2}}

ArchivosLoad ==
    {[BaseArchivos EXCEPT !.clientes = c] : c \in SeqsUpTo(ClientesLoad, MaxDim)}
    \cup {[BaseArchivos EXCEPT !.productos = p] : p \in SeqsUpTo(ProductosLoad, MaxDim)}
    \cup {[BaseArchivos EXCEPT !.ventas = v] : v \in SeqsUpTo(VentasLoad, MaxFact)}
    \cup {[BaseArchivos EXCEPT !.cartera = c] : c \in SeqsUpTo(CarteraLoad, MaxFact)}
    \cup {[BaseArchivos EXCEPT !.clientes = c, !.productos = p, !.ventas = v] :
            c \in SeqsUpTo(ClientesJoin, MaxFact), p \in SeqsUpTo(ProductosJoin, MaxFact),
            v \in SeqsUpTo(VentasJoin, MaxFact)}

\* Files with more customers and products than the top lists keep: customer i buys
\* product i once, for an amount of 1, except customers a and b who buy for more.
ArchivosTop ==
    {[BaseArchivos EXCEPT
        !.clientes = [i \in 1..n |-> Cliente(i, "Ana", "Retail", "Norte", "Bogota")],
        !.productos = [i \in 1..n |-> Producto(i, "S1", "D1")],
        !.ventas = [i \in 1..n |->
                      Venta(i, 0, i, i, 1 + (IF i = ab[1] THEN 1 ELSE 0)
                                          + (IF i = ab[2] THEN 2 ELSE 0))]] :
        n \in (TopN + 1)..MaxGrupos, ab \in (0..MaxGrupos) \X (0..MaxGrupos)}

InitWith(files) ==
    /\ archivos \in files
    /\ cache = NoCache
    /\ load_ran = FALSE
    /\ pc = "init"
    /\ fecha_desde = NaT
    /\ fecha_hasta = NaT
    /\ region_sel = Todos
    /\ segmento_sel = Todos
    /\ out = NoOut

Init == InitWith(ArchivosSesion)
Next == Start \/ Rerun \/ SetFechas \/ SetRegion \/ SetSegmento \/ ClearCache
Spec == Init /\ [][Next]_vars

InitLoad == InitWith(ArchivosLoad)
NextLoad == Start \/ Rerun \/ ClearCache
SpecLoad == InitLoad /\ [][NextLoad]_vars

InitTop == InitWith(ArchivosTop)
NextTop == Start \/ Rerun
SpecTop == InitTop /\ [][NextTop]_vars

-----------------------------------------------------------------------------
(* Properties *)

Loaded == cache # NoCache
Data == cache[1]
Rows(df) == {df[i] : i \in 1..Len(df)}
Count(df, x) == Cardinality({i \in 1..Len(df) : df[i] = x})
HasNull(r, cols) == \E k \in 1..Len(cols) : r[cols[k]] = NullOf(cols[k])
KeysUnique(df, cols) ==
    \A i \in 1..Len(df) : \A j \in 1..Len(df) :
        (\A k \in 1..Len(cols) : df[i][cols[k]] = df[j][cols[k]]) => i = j

\* C1: after load_data, ventas_ext has exactly one row per cleaned sale, in the same
\* order and with the sale's own columns unchanged; a sale whose cliente_id
\* (producto_id) is in no cleaned customer (product) row is kept with NaN in the
\* joined columns.
C1_EnrichRowCount ==
    Loaded =>
        /\ Len(Data.ventas_ext) = Len(Data.ventas)
        /\ \A i \in 1..Len(Data.ventas) :
            LET v == Data.ventas[i]
                e == Data.ventas_ext[i]
            IN  /\ \A f \in DOMAIN v : e[f] = v[f]
                /\ (\A c \in Rows(Data.clientes) : c.cliente_id # v.cliente_id)
                      => (e.nombre_cliente = NullStr /\ e.segmento = NullStr
                          /\ e.region = NullStr /\ e.ciudad = NullStr)
                /\ (\A q \in Rows(Data.productos) : q.producto_id # v.producto_id)
                      => (e.sku = NullStr /\ e.descripcion = NullStr)

\* The customers file repeats the key of a sale's customer, and another sale names a
\* customer that is in no row.
C1_Witness ==
    /\ Loaded
    /\ \E i \in 1..Len(archivos.clientes) : \E j \in 1..Len(archivos.clientes) :
          /\ i # j
          /\ archivos.clientes[i].cliente_id = archivos.clientes[j].cliente_id
          /\ \E v \in Rows(Data.ventas) : v.cliente_id = archivos.clientes[i].cliente_id
    /\ \E e \in Rows(Data.ventas_ext) : e.region = NullStr
    /\ Len(Data.ventas_ext) >= 2

\* C4 as stated: after the cleaning, no two rows of clientes, productos, ventas or
\* cartera agree on all the key columns of their table.
C4_AllFourUnique ==
    Loaded =>
        /\ KeysUnique(Data.clientes, <<"cliente_id">>)
        /\ KeysUnique(Data.productos, <<"producto_id">>)
        /\ KeysUnique(Data.ventas, VentasKeyCols)
        /\ KeysUnique(Data.cartera, CarteraKeyCols)

FirstWithKey(raw, col, k) ==
    raw[CHOOSE i \in 1..Len(raw) :
            raw[i][col] = k /\ \A j \in 1..(i - 1) : raw[j][col] # k]

\* C4 amended: the cleaning drops duplicates on the key, retaining the first
\* occurrence, for clientes (cliente_id) and productos (producto_id) only; from
\* ventas and cartera it drops exactly the rows with a missing key column, and
\* every other row stays as many times as the file has it.
C4_DimUniqueFactsKept ==
    Loaded =>
        /\ KeysUnique(Data.clientes, <<"cliente_id">>)
        /\ KeysUnique(Data.productos, <<"producto_id">>)
        /\ \A c \in Rows(Data.clientes) :
              c = FirstWithKey(archivos.clientes, "cliente_id", c.cliente_id)
        /\ \A q \in Rows(Data.productos) :
              q = FirstWithKey(archivos.productos, "producto_id", q.producto_id)
        /\ \A v \in Rows(archivos.ventas) :
              Count(Data.ventas, v) = IF HasNull(v, VentasKeyCols) THEN 0 ELSE Count(archivos.ventas, v)
        /\ \A d \in Rows(archivos.cartera) :
              Count(Data.cartera, d) =
                  IF HasNull(d, CarteraKeyCols) THEN 0 ELSE Count(archivos.cartera, d)

\* The customers and products files repeat a key with different attributes, and
\* the cleaned sales hold the same row twice.
C4_Witness ==
    /\ Loaded
    /\ \E i \in 1..Len(archivos.clientes) : \E j \in 1..Len(archivos.clientes) :
          /\ i < j
          /\ archivos.clientes[i].cliente_id = archivos.clientes[j].cliente_id
          /\ archivos.clientes[i].cliente_id # NullId
    /\ \E i \in 1..Len(archivos.productos) : \E j \in 1..Len(archivos.productos) :
          /\ i < j
          /\ archivos.productos[i].producto_id = archivos.productos[j].producto_id
          /\ archivos.productos[i] # archivos.productos[j]
    /\ \E i \in 1..Len(Data.ventas) : \E j \in 1..Len(Data.ventas) :
          i < j /\ Data.ventas[i] = Data.ventas[j]

\* C5: cleaning a cleaned table gives the same rows in the same order, for each of
\* clientes, productos, ventas and cartera.
C5_CleanIdempotent ==
    Loaded =>
        /\ CleanClientes(Data.clientes) = Data.clientes
        /\ CleanProductos(Data.productos) = Data.productos
        /\ CleanVentas(Data.ventas) = Data.ventas
        /\ CleanCartera(Data.cartera) = Data.cartera

\* The first cleaning dropped rows of the customers file (three rows with one key)
\* and of the receivables file.
C5_Witness ==
    /\ Loaded
    /\ \E i \in 1..Len(archivos.clientes) :
          /\ archivos.clientes[i].cliente_id # NullId
          /\ Cardinality({j \in 1..Len(archivos.clientes) :
                 archivos.clientes[j].cliente_id = archivos.clientes[i].cliente_id}) >= 3
    /\ Len(Data.clientes) < Len(archivos.clientes)
    /\ Len(Data.cartera) < Len(archivos.cartera)

MaxDia == 3
DiasSpec == 0..MaxDia
RegionesSpec == {Todos, "Norte", "Sur", "Oriente"}
SegmentosSpec == {Todos, "Retail", "Mayorista", "Gobierno"}

\* The rows the filter specification asks for: date within [desde, hasta], both
\* ends included, and the region and the segment those selected, if any.
Pide(r, desde, hasta, region, segmento) ==
    /\ ToDatetime(desde) <= r.fecha
    /\ r.fecha <= ToDatetime(hasta)
    /\ (region = Todos \/ r.region = region)
    /\ (segmento = Todos \/ r.segmento = segmento)

FiltroExacto(ventas_ext, ventas_f, desde, hasta, region, segmento) ==
    LET Test(r) == Pide(r, desde, hasta, region, segmento)
    IN  /\ ventas_f = SelectSeq(ventas_ext, Test)
        /\ Rows(ventas_f) \subseteq Rows(ventas_ext)
        /\ Len(ventas_f) <= Len(ventas_ext)
        /\ desde > hasta => ventas_f = <<>>
        /\ (region # Todos /\ \A r \in Rows(ventas_ext) : r.region # region)
              => ventas_f = <<>>
        /\ (segmento # Todos /\ \A r \in Rows(ventas_ext) : r.segmento # segmento)
              => ventas_f = <<>>

\* The widgets as the first run of a session leaves them.
AtDefaults ==
    /\ fecha_desde = DefaultDesde(Data)
    /\ fecha_hasta = DefaultHasta(Data)
    /\ region_sel = Todos
    /\ segmento_sel = Todos

\* C2: the filtered view of a run is exactly the enriched rows, in their order, with
\* midnight of fecha_desde <= fecha <= midnight of fecha_hasta and the selected
\* region and segment (if any); and so is the view for every filter specification,
\* among them desde > hasta and a region or segment that is in no row, for which
\* it is empty (the tables are those of every run of the session, so this part is
\* stated where the widgets are at their defaults).
C2_FilterExact ==
    (pc = "ok" /\ Loaded) =>
        /\ FiltroExacto(Data.ventas_ext, out.ventas_f, fecha_desde, fecha_hasta,
                        region_sel, segmento_sel)
        /\ AtDefaults =>
              \A d \in DiasSpec : \A h \in DiasSpec :
              \A r \in RegionesSpec : \A g \in SegmentosSpec :
                 FiltroExacto(Data.ventas_ext, VentasF(Data.ventas_ext, d, h, r, g),
                              d, h, r, g)

\* A run with a region selected that keeps a row, drops a row of another region
\* that is within the dates, and drops a row of the selected region for its date.
C2_Witness ==
    /\ pc = "ok"
    /\ Loaded
    /\ region_sel # Todos
    /\ out.ventas_f # <<>>
    /\ \E r \in Rows(Data.ventas_ext) :
          /\ r.region # region_sel
          /\ Pide(r, fecha_desde, fecha_hasta, Todos, Todos)
    /\ \E r \in Rows(Data.ventas_ext) :
          /\ r.region = region_sel
          /\ ~Pide(r, fecha_desde, fecha_hasta, Todos, Todos)

\* C3 as stated: with the date range at its default (the global minimum and
\* maximum over the four date columns) and no region or segment selected, the
\* filtered view has every row of ventas_ext.
C3_IdentityKeepsAll ==
    (pc = "ok" /\ Loaded /\ AtDefaults)
        => Rows(out.ventas_f) = Rows(Data.ventas_ext)

\* C6: the subtotals of the monthly series add up to the KPI total of the same
\* filtered view: every filtered row is in the group of its month, no month is
\* listed twice, and each month's subtotal is the sum over its rows.
C6_MonthlySumConserved ==
    pc = "ok" =>
        LET vm == out.ventas_mes
        IN  /\ SumSeq([k \in 1..Len(vm) |-> vm[k].subtotal_cop]) = out.total_ventas
            /\ \A k \in 1..Len(vm) : \A l \in 1..Len(vm) : vm[k].mes = vm[l].mes => k = l
            /\ \A r \in Rows(out.ventas_f) : \E k \in 1..Len(vm) : vm[k].mes = r.mes
            /\ \A k \in 1..Len(vm) :
                  vm[k].subtotal_cop =
                      SumSeq([i \in 1..Len(out.ventas_f) |->
                                 IF out.ventas_f[i].mes = vm[k].mes
                                 THEN out.ventas_f[i].subtotal_cop ELSE 0])

\* A filtered view over two months, with two rows in one of them and amounts that
\* are not all 1.
C6_Witness ==
    /\ pc = "ok"
    /\ Len(out.ventas_mes) = 2
    /\ Len(out.ventas_f) >= 3
    /\ out.total_ventas > Len(out.ventas_f)

\* The summed subtotal of the rows of a group: those with no missing value in the
\* grouping columns and the values of key in them.
EnGrupo(r, by, key) == ~HasNull(r, by) /\ KeyOf(r, by) = key
SumaGrupo(ventas_f, by, key) ==
    SumSeq([i \in 1..Len(ventas_f) |->
               IF EnGrupo(ventas_f[i], by, key) THEN ventas_f[i].subtotal_cop ELSE 0])

TopOk(top, ventas_f, by) ==
    /\ Len(top) <= 15
    /\ \A k \in 1..(Len(top) - 1) : top[k].subtotal_cop >= top[k + 1].subtotal_cop
    /\ \A k \in 1..Len(top) : \A l \in 1..Len(top) :
          KeyOf(top[k], by) = KeyOf(top[l], by) => k = l
    /\ \A k \in 1..Len(top) :
          /\ \E r \in Rows(ventas_f) : EnGrupo(r, by, KeyOf(top[k], by))
          /\ top[k].subtotal_cop = SumaGrupo(ventas_f, by, KeyOf(top[k], by))
    /\ \A r \in Rows(ventas_f) :
          (~HasNull(r, by) /\ \A k \in 1..Len(top) : KeyOf(top[k], by) # KeyOf(r, by))
             => /\ Len(top) = 15
                /\ \A k \in 1..Len(top) :
                      SumaGrupo(ventas_f, by, KeyOf(r, by)) <= top[k].subtotal_cop

\* C7: top_clientes and top_productos have at most 15 rows each, in non-increasing
\* order of summed subtotal, one row per group with the group's sum, and a group
\* that is left out has a sum no greater than that of any row kept.
C7_TopN ==
    pc = "ok" =>
        /\ TopOk(out.top_clientes, out.ventas_f, <<"cliente_id", "nombre_cliente">>)
        /\ TopOk(out.top_productos, out.ventas_f, <<"producto_id", "sku", "descripcion">>)

\* Sixteen customers or more, so one is left out; the list starts above where it
\* ends, and the customer with the largest sum is not among the first fifteen ids.
C7_Witness ==
    /\ pc = "ok"
    /\ Len(out.ventas_f) > 15
    /\ Len(out.top_clientes) = 15
    /\ out.top_clientes[1].subtotal_cop > out.top_clientes[15].subtotal_cop
    /\ out.top_clientes[1].cliente_id > 15

CarteraEsperada(estado) ==
    SumSeq([i \in 1..Len(archivos.cartera) |->
               IF /\ ~HasNull(archivos.cartera[i], CarteraKeyCols)
                  /\ archivos.cartera[i].estado = estado
               THEN archivos.cartera[i].saldo_cop ELSE 0])

\* C8: the two receivables KPIs are the sums of saldo_cop over the cleaned
\* receivables with estado "Vigente" and with estado "En mora", and no change of
\* the date range, the region or the segment changes either of them.
C8_CarteraIndependent ==
    /\ [](pc = "ok" => /\ out.cartera_vigente = CarteraEsperada("Vigente")
                       /\ out.cartera_mora = CarteraEsperada("En mora"))
    /\ [][(pc = "ok" /\ pc' = "ok")
             => /\ out'.cartera_vigente = out.cartera_vigente
                /\ out'.cartera_mora = out.cartera_mora]_vars

\* A run with a region selected and a date range that leaves sales out, over
\* receivables of both kinds and one with a missing key.
C8_Witness ==
    /\ pc = "ok"
    /\ Loaded
    /\ region_sel # Todos
    /\ fecha_desde # DefaultDesde(Data)
    /\ Len(out.ventas_f) < Len(Data.ventas_ext)
    /\ out.cartera_vigente > 0
    /\ out.cartera_mora > 0
    /\ Len(Data.cartera) < Len(archivos.cartera)

\* C9: the body of load_data runs in the first run of a session and in the first
\* run after the cache was cleared, and in no other: a run that finds the cache
\* filled does not load and leaves the cache, and so the tables every filter and
\* aggregate reads, as it was; the cache is emptied by nothing but the clearing.
C9_LoadOncePerInvalidation ==
    /\ [](Loaded => Data = LoadData(archivos))
    /\ [](load_ran => Loaded)
    /\ [][load_ran' => cache = NoCache]_vars
    /\ [][(cache = NoCache /\ cache' # NoCache) => load_ran']_vars
    /\ [][(cache # NoCache /\ cache' # NoCache) => (cache' = cache /\ ~load_ran')]_vars
    /\ [][(cache # NoCache /\ cache' = NoCache)
            => (pc' = pc /\ out' = out /\ fecha_desde' = fecha_desde
                /\ fecha_hasta' = fecha_hasta /\ region_sel' = region_sel
                /\ segmento_sel' = segmento_sel)]_vars

\* The cache was cleared and the load ran again, in a session whose filters had
\* been changed and whose last run before the clearing had not loaded.
C9_Witness ==
    /\ pc = "ok"
    /\ load_ran
    /\ region_sel # Todos
    /\ fecha_hasta # DefaultHasta(Data)

SumaGrupos(g) == SumSeq([k \in 1..Len(g) |-> g[k].subtotal_cop])
ConRegionSegmento(r) == r.region # NullStr /\ r.segmento # NullStr
SinRegionSegmento(r) == ~ConRegionSegmento(r)
SumaCon(ventas_f) ==
    SumSeq([i \in 1..Len(ventas_f) |->
               IF ConRegionSegmento(ventas_f[i]) THEN ventas_f[i].subtotal_cop ELSE 0])
SumaSin(ventas_f) ==
    SumSeq([i \in 1..Len(ventas_f) |->
               IF SinRegionSegmento(ventas_f[i]) THEN ventas_f[i].subtotal_cop ELSE 0])

\* C10 as stated: the region x segment groups add up to the subtotal of the
\* filtered rows with a region and a segment, and that total equals the KPI total
\* only when every filtered row has a region and a segment.
C10_EqualOnlyWhenAllMatched ==
    pc = "ok" =>
        /\ SumaGrupos(out.ventas_region) = SumaCon(out.ventas_f)
        /\ SumaGrupos(out.ventas_region) = out.total_ventas
              => \A r \in Rows(out.ventas_f) : ConRegionSegmento(r)

\* C10 amended: the region x segment groups cover only the filtered rows with a
\* region and a segment and add up to their subtotal; the KPI total is that sum
\* plus the subtotal of the filtered rows without a region or a segment, which are
\* in no group; so the two totals are equal when every filtered row has a region
\* and a segment, and otherwise exactly when the rows without add up to zero.
C10_GroupsCoverMatchedRows ==
    pc = "ok" =>
        /\ SumaGrupos(out.ventas_region) = SumaCon(out.ventas_f)
        /\ out.total_ventas =
              SumaGrupos(out.ventas_region) + SumaSin(out.ventas_f)
        /\ \A k \in 1..Len(out.ventas_region) :
              /\ out.ventas_region[k].region # NullStr
              /\ out.ventas_region[k].segmento # NullStr
        /\ (\A r \in Rows(out.ventas_f) : ConRegionSegmento(r))
              => SumaGrupos(out.ventas_region) = out.total_ventas

\* A filtered view with a sale of a known customer and a sale, of a positive
\* amount, whose customer is in no row: the KPI total is above the groups' total.
C10_Witness ==
    /\ pc = "ok"
    /\ \E r \in Rows(out.ventas_f) : SinRegionSegmento(r) /\ r.subtotal_cop > 0
    /\ \E r \in Rows(out.ventas_f) : ConRegionSegmento(r) /\ r.subtotal_cop > 0
    /\ out.total_ventas > SumaGrupos(out.ventas_region)

====
